---------------------------- MODULE Spec2Model ----------------------------
(***************************************************************************)
(* A model of the property-map application:                                *)
(*   - property_map/map_utils.py : extract_coordinates                     *)
(*   - property_map/db.py        : Database.insert_property,               *)
(*                                 Database.fetch_properties (memoized)    *)
(*   - pg/form.py                : the "property_form" submit handler     *)
(*   - pg/map.py                 : the map page script (load, filter,      *)
(*                                 markers)                                *)
(* Three specifications share the variables:                               *)
(*   SpecExtract : extract_coordinates applied to bounded URL strings      *)
(*   Spec        : the form, the facade, its memoization and the clock     *)
(*   SpecMap     : reruns of the map page in several sessions              *)
(***************************************************************************)
EXTENDS Integers, Sequences, FiniteSets, TLC

VARIABLES
    url,            \* SpecExtract: the string handed to extract_coordinates
    npieces,        \* SpecExtract: how many pieces url was built from
    extracted,      \* SpecExtract: outcome of the last extract_coordinates call
    table,          \* remote store: rows of the listings table, in insert order
    now,            \* wall clock, whole seconds
    fp_cache,       \* st.cache_data of fetch_properties, keyed by `table` argument
    lpd_cache,      \* st.cache_data of load_property_data (no arguments)
    call,           \* the last completed operation and its outcome
    inserted,       \* history: drafts of the successful insert_property calls
    unread,         \* history: a listing was inserted since the last read of all listings
    session_state,  \* per session: st.session_state of the map page
    page            \* per session: what the last run of the map page displayed

vars == << url, npieces, extracted, table, now, fp_cache, lpd_cache,
           call, inserted, unread, session_state, page >>

extractVars == << url, npieces, extracted >>
storeVars   == << table, now, fp_cache, lpd_cache, call, inserted, unread >>
mapVars     == << session_state, page >>

None == [tag |-> "None"]

-----------------------------------------------------------------------------
(***************************************************************************)
(* Strings are sequences of one-character strings.                         *)
(***************************************************************************)

Digits == {"0", "1", "2", "3", "4", "5", "6", "7", "8", "9"}

DigitVal(c) ==
    CASE c = "0" -> 0 [] c = "1" -> 1 [] c = "2" -> 2 [] c = "3" -> 3
      [] c = "4" -> 4 [] c = "5" -> 5 [] c = "6" -> 6 [] c = "7" -> 7
      [] c = "8" -> 8 [] c = "9" -> 9

\* the character class [-0-9.] of both patterns
CharClass == Digits \cup {"-", "."}

\* the literals of the two patterns
Lit3d == << "!", "3", "d" >>
Lit4d == << "!", "4", "d" >>
LitAt == << "@" >>
LitComma == << "," >>

RECURSIVE DigitsToNat(_)
DigitsToNat(ds) ==
    IF ds = << >> THEN 0
    ELSE 10 * DigitsToNat(SubSeq(ds, 1, Len(ds) - 1)) + DigitVal(ds[Len(ds)])

\* A float is kept as the decimal m / 10^e in lowest form (no trailing zero
\* of the fraction), so two texts give equal records exactly when Python's
\* floats compare equal (texts here stay far below 15 significant digits;
\* -0.0 == 0.0).
RECURSIVE Normalize(_, _)
Normalize(m, e) ==
    IF e > 0 /\ m % 10 = 0 THEN Normalize(m \div 10, e - 1)
    ELSE [tag |-> "float", m |-> m, e |-> e]

\* index of the first character at or after i that is not in `set`
\* (Len(s) + 1 when the run reaches the end)
RECURSIVE RunEnd(_, _, _)
RunEnd(s, i, set) ==
    IF i > Len(s) \/ s[i] \notin set THEN i ELSE RunEnd(s, i + 1, set)

ValueError == [tag |-> "ValueError"]

\* Python's float() on a text over [-0-9.]: [sign] digits [. digits] or
\* [sign] . digits ; anything else raises ValueError.
float(text) ==
    LET neg  == text # << >> /\ text[1] = "-"
        body == IF neg THEN Tail(text) ELSE text
        p    == RunEnd(body, 1, Digits)
        dot  == p <= Len(body) /\ body[p] = "."
        q    == IF dot THEN RunEnd(body, p + 1, Digits) ELSE p
        ip   == SubSeq(body, 1, p - 1)
        fp   == IF dot THEN SubSeq(body, p + 1, q - 1) ELSE << >>
        mag  == DigitsToNat(ip \o fp)
    IN  IF q = Len(body) + 1 /\ Len(ip) + Len(fp) > 0
        THEN Normalize(IF neg THEN 0 - mag ELSE mag, Len(fp))
        ELSE ValueError

NoMatch == << >>

HasLit(s, i, lit) ==
    /\ i + Len(lit) - 1 <= Len(s)
    /\ SubSeq(s, i, i + Len(lit) - 1) = lit

\* The pattern  lead([-0-9.]+)sep([-0-9.]+)  tried at position i. Both groups
\* are greedy; sep starts with a character outside the class, so group 1 is
\* the whole run and nothing is gained by backtracking. The groups, or NoMatch.
MatchAt(s, i, lead, sep) ==
    LET a  == i + Len(lead)
        b  == RunEnd(s, a, CharClass)
        c  == b + Len(sep)
        d  == RunEnd(s, c, CharClass)
    IN  IF HasLit(s, i, lead) /\ b > a /\ HasLit(s, b, sep) /\ d > c
        THEN << SubSeq(s, a, b - 1), SubSeq(s, c, d - 1) >>
        ELSE NoMatch

\* re.search: the match at the leftmost position that has one
RECURSIVE SearchFrom(_, _, _, _)
SearchFrom(s, i, lead, sep) ==
    IF i > Len(s) THEN NoMatch
    ELSE LET m == MatchAt(s, i, lead, sep)
         IN  IF m # NoMatch THEN m ELSE SearchFrom(s, i + 1, lead, sep)

re_search(s, lead, sep) == SearchFrom(s, 1, lead, sep)

\* lat, lon = map(float, match.groups()); return lat, lon
FloatPair(groups) ==
    IF float(groups[1]) = ValueError \/ float(groups[2]) = ValueError
    THEN ValueError
    ELSE [tag |-> "pair", lat |-> float(groups[1]), lon |-> float(groups[2])]

extract_coordinates_default00(u) ==
    LET m1 == re_search(u, Lit3d, Lit4d)
        m2 == re_search(u, LitAt, LitComma)
    IN  IF m1 # NoMatch THEN FloatPair(m1)
        ELSE IF m2 # NoMatch THEN FloatPair(m2)
        ELSE [tag |-> "pair", lat |-> Normalize(0, 0), lon |-> Normalize(0, 0)]

\* the coordinate pair, None, or the ValueError that float() raised
extract_coordinates(u) ==
    LET m1 == re_search(u, Lit3d, Lit4d)
        m2 == re_search(u, LitAt, LitComma)
    IN  IF m1 # NoMatch THEN FloatPair(m1)
        ELSE IF m2 # NoMatch THEN FloatPair(m2)
        ELSE None

-----------------------------------------------------------------------------
(***************************************************************************)
(* SpecExtract: URL strings are built from at most MaxPieces pieces, each  *)
(* a fragment of one of the two shapes or a short piece of other text.     *)
(***************************************************************************)

MaxPieces == 2

NumTexts == { << "1", "8", ".", "7" >>, << "-", "2" >>, << ".", "5" >>,
              << "-" >>, << "1", ".", "2", ".", "3" >> }

OtherTexts == { << "x" >>, << "7" >>, << "-" >>, << "!", "3", "d" >> }

Pieces ==
    { Lit3d \o a \o Lit4d \o b : a \in NumTexts, b \in NumTexts }
      \cup { LitAt \o a \o LitComma \o b : a \in NumTexts, b \in NumTexts }
      \cup OtherTexts

Pending == [tag |-> "pending"]


\* url is still being put together
AppendPiece(p) ==
    /\ extracted = Pending
    /\ npieces < MaxPieces
    /\ url' = url \o p
    /\ npieces' = npieces + 1
    /\ UNCHANGED << extracted, storeVars, mapVars >>

\* one call extract_coordinates(url)
ExtractCoordinates ==
    /\ extracted = Pending
    /\ extracted' = extract_coordinates(url)
    /\ UNCHANGED << url, npieces, storeVars, mapVars >>

-----------------------------------------------------------------------------
(***************************************************************************)
(* What the specification text calls a fragment, stated without the        *)
(* scanning order of the regex engine: a literal, a maximal non-empty run  *)
(* of class characters, the separator, a second maximal non-empty run.     *)
(***************************************************************************)

Fragments(u, lead, sep) ==
    LET starts == { i \in 1..Len(u) : HasLit(u, i, lead) }
        seps   == { b \in 1..Len(u) : HasLit(u, b, sep) }
        ends   == { d \in 1..(Len(u) + 1) : d = Len(u) + 1 \/ u[d] \notin CharClass }
    IN  { [at |-> t[1], lat |-> SubSeq(u, t[1] + Len(lead), t[2] - 1),
                        lon |-> SubSeq(u, t[2] + Len(sep), t[3] - 1)] :
            t \in { t \in starts \X seps \X ends :
                      /\ t[2] > t[1] + Len(lead)
                      /\ \A x \in (t[1] + Len(lead))..(t[2] - 1) : u[x] \in CharClass
                      /\ t[3] > t[2] + Len(sep)
                      /\ \A x \in (t[2] + Len(sep))..(t[3] - 1) : u[x] \in CharClass } }

\* a signed decimal: an optional minus, then digits with at most one point
\* among them, at least one digit
IsNumber(t) ==
    LET body == IF t # << >> /\ t[1] = "-" THEN Tail(t) ELSE t
    IN  /\ \A x \in 1..Len(body) : body[x] \in Digits \cup {"."}
        /\ Cardinality({ x \in 1..Len(body) : body[x] = "." }) <= 1
        /\ \E x \in 1..Len(body) : body[x] \in Digits

IsDigitChar(c) == c \in Digits

\* the value a signed decimal denotes
NumberValue(t) ==
    LET neg  == t[1] = "-"
        mag  == DigitsToNat(SelectSeq(t, IsDigitChar))
        dots == { x \in 1..Len(t) : t[x] = "." }
        e    == IF dots = {} THEN 0 ELSE Len(t) - (CHOOSE x \in dots : TRUE)
    IN  Normalize(IF neg THEN 0 - mag ELSE mag, e)

WellFormed(f) == IsNumber(f.lat) /\ IsNumber(f.lon)

PlaceFragments(u) == Fragments(u, Lit3d, Lit4d)
AtFragments(u) == Fragments(u, LitAt, LitComma)

First(fs) == CHOOSE f \in fs : \A g \in fs : f.at <= g.at

PairOf(f) == [tag |-> "pair", lat |-> NumberValue(f.lat), lon |-> NumberValue(f.lon)]

WellFormedOf(fs) == { f \in fs : WellFormed(f) }

\* C1: once extract_coordinates has returned for a URL that contains a
\* well-formed !3d<lat>!4d<lon> fragment, the outcome is the pair of the first
\* such fragment (whatever @ fragments the URL holds).
C1_PlaceFirst ==
    (extracted # Pending /\ WellFormedOf(PlaceFragments(url)) # {})
        => extracted = PairOf(First(WellFormedOf(PlaceFragments(url))))

\* C1 holds of every call that does not end in float()'s ValueError
C1_UnlessValueError ==
    (extracted # Pending /\ WellFormedOf(PlaceFragments(url)) # {})
        => \/ extracted = PairOf(First(WellFormedOf(PlaceFragments(url))))
           \/ extracted = ValueError

\* C2: once extract_coordinates has returned for a URL that has no !3d..!4d..
\* fragment and contains an @<lat>,<lon> fragment, the outcome is the pair of
\* the first @ fragment.
C2_AtFallback ==
    (/\ extracted # Pending
     /\ PlaceFragments(url) = {}
     /\ WellFormedOf(AtFragments(url)) # {})
        => extracted = PairOf(First(WellFormedOf(AtFragments(url))))

\* C2 holds of every call that does not end in float()'s ValueError
C2_UnlessValueError ==
    (/\ extracted # Pending
     /\ PlaceFragments(url) = {}
     /\ WellFormedOf(AtFragments(url)) # {})
        => \/ extracted = PairOf(First(WellFormedOf(AtFragments(url))))
           \/ extracted = ValueError

\* C3: once extract_coordinates has returned for a URL in which neither
\* pattern has a match (the empty string included), the outcome is None.
C3_NeitherIsNone ==
    (/\ extracted # Pending
     /\ PlaceFragments(url) = {}
     /\ AtFragments(url) = {})
        => extracted = None

\* a URL that starts like a place fragment, matches neither pattern, got None
C3_Witness ==
    /\ extracted = None
    /\ HasLit(url, 1, Lit3d)
    /\ PlaceFragments(url) = {} /\ AtFragments(url) = {}

\* the empty string got None
C3_WitnessEmpty == extracted = None /\ url = << >>

\* C4: extract_coordinates is total: every call ends in a pair or in None,
\* never in a raised parse error.
C4_Total == extracted.tag \in {"pending", "pair", "None"}


-----------------------------------------------------------------------------
(***************************************************************************)
(* The remote store, the facade (db.py) and its memoization.               *)
(***************************************************************************)

\* property_map/config.py CACHE_TTL, seconds
TTL_data == 300
TTL_processing == 1800

Sessions == {"s1"}

\* the `table` arguments tried on fetch_properties
Selectors == {"all", "default_location", "bogus"}

MaxInserts == 2

\* the instants at which the clock is read: inside the shorter TTL, on it,
\* one second past it, and on the longer one
Instants == {0, 150, 300, 301, 1800}

Null == [tag |-> "null"]

\* mid_Sep_flag of a row the store holds no status for (SQL NULL)
NullFlag == 0 - 1

DigitChars == << "0", "1", "2", "3", "4", "5", "6", "7", "8", "9" >>

\* the decimal digits of n, zero-padded to `width` characters
RECURSIVE Padded(_, _)
Padded(n, width) ==
    IF width = 0 THEN << >>
    ELSE Padded(n \div 10, width - 1) \o << DigitChars[(n % 10) + 1] >>

RECURSIVE Unpadded(_)
Unpadded(n) ==
    IF n < 10 THEN << DigitChars[n + 1] >>
    ELSE Unpadded(n \div 10) \o << DigitChars[(n % 10) + 1] >>

strftime_unpadded(d) ==
    Unpadded(d.year) \o << "-" >> \o Unpadded(d.month) \o << "-" >> \o Unpadded(d.day)

\* date_added.strftime("%Y-%m-%d"), for years of four digits
strftime(d) ==
    Padded(d.year, 4) \o << "-" >> \o Padded(d.month, 2) \o << "-" >> \o Padded(d.day, 2)

\* what the user typed into the form (pg/form.py widgets)
UrlPlace   == Lit3d \o << "1", ".", "7" >> \o Lit4d \o << "9" >>
UrlAt      == << "/" >> \o LitAt \o << "-", "2" >> \o LitComma \o << ".", "5" >>
UrlNoMatch == << "x" >>
UrlBadNum  == LitAt \o << "-" >> \o LitComma \o << "-" >>

FormInputs ==
    { [title |-> "A", listing_url |-> "fb/1", google_maps_url |-> UrlPlace,
       price |-> 7000, contract_length |-> 6, has_a_desk |-> "Yes",
       date_added |-> [year |-> 2025, month |-> 9, day |-> 5],
       description |-> ""],
      [title |-> "B", listing_url |-> "", google_maps_url |-> UrlAt,
       price |-> 0, contract_length |-> 12, has_a_desk |-> "None",
       date_added |-> [year |-> 2025, month |-> 11, day |-> 23],
       description |-> "quiet"],
      [title |-> "C", listing_url |-> "", google_maps_url |-> UrlNoMatch,
       price |-> 5000, contract_length |-> 0, has_a_desk |-> "No",
       date_added |-> [year |-> 2025, month |-> 9, day |-> 5],
       description |-> ""],
      [title |-> "D", listing_url |-> "", google_maps_url |-> UrlBadNum,
       price |-> 20000, contract_length |-> 1, has_a_desk |-> "Yes",
       date_added |-> [year |-> 2025, month |-> 9, day |-> 5],
       description |-> ""] }

\* A row of the listings table: the ten columns insert_property writes and
\* mid_Sep_flag, which the insert leaves to the store (NullFlag here).
Row(title, listing_url, google_maps_url, latitude, longitude, price, contract_length, has_a_desk, date_text, description, flag) ==
    [title |-> title, listing_url |-> listing_url,
     google_maps_url |-> google_maps_url,
     latitude |-> latitude, longitude |-> longitude, price |-> price,
     contract_length |-> contract_length, has_a_desk |-> has_a_desk,
     date_added |-> date_text, description |-> description,
     mid_Sep_flag |-> flag]

insert_property_upsert(tbl, title, listing_url, google_maps_url, latitude, longitude, price, contract_length, has_a_desk, date_added, description) ==
    LET row == Row(title, listing_url, google_maps_url, latitude, longitude,
                   price, contract_length, has_a_desk, strftime(date_added),
                   description, NullFlag)
    IN  IF \E i \in 1..Len(tbl) : tbl[i] = row THEN tbl ELSE Append(tbl, row)

\* Database.insert_property: the table after .insert([{...}]).execute()
insert_property(tbl, title, listing_url, google_maps_url, latitude, longitude, price, contract_length, has_a_desk, date_added, description) ==
    Append(tbl, Row(title, listing_url, google_maps_url, latitude, longitude,
                    price, contract_length, has_a_desk, strftime(date_added),
                    description, NullFlag))

\* the singleton default-location table, provisioned out of band
DefaultLocationTable ==
    << [title |-> "Home", latitude |-> Normalize(187, 1),
        longitude |-> Normalize(989, 1)] >>

NoEntry == [tag |-> "absent"]

\* st.cache_data(ttl=...): an entry answers calls made less than ttl seconds
\* after it was stored
Fresh(entry, t, ttl) == entry # NoEntry /\ t < entry.at + ttl

StorageError == [tag |-> "StorageError"]
InvalidTable == [tag |-> "ValueError", message |-> "Invalid table"]

Raised(out) == out.tag \in {"StorageError", "ValueError", "TypeError", "KeyError"}

DataFrame(rows) == [tag |-> "df", rows |-> rows]

fetch_properties_body_lenient(sel, tbl, ok) ==
    LET target == IF sel = "default_location" THEN DefaultLocationTable ELSE tbl
    IN  IF ok THEN [out |-> DataFrame(target), sent |-> 1]
        ELSE [out |-> StorageError, sent |-> 1]

\* The body of Database.fetch_properties: the outcome and how many requests
\* went to the remote store. `ok` is whether the store answers the request.
fetch_properties_body(sel, tbl, ok) ==
    IF sel \notin {"all", "default_location"}
    THEN [out |-> InvalidTable, sent |-> 0]
    ELSE LET target == IF sel = "all" THEN tbl ELSE DefaultLocationTable
         IN  IF ok THEN [out |-> DataFrame(target), sent |-> 1]
             ELSE [out |-> StorageError, sent |-> 1]

\* fetch_properties behind st.cache_data(ttl=CACHE_TTL["processing"]): the
\* key is the `table` argument (_self is left out of the key); a raised
\* exception is not stored.
fetch_properties(cache, sel, t, tbl, ok) ==
    IF Fresh(cache[sel], t, TTL_processing)
    THEN [out |-> cache[sel].value, sent |-> 0, stored |-> FALSE, cache |-> cache]
    ELSE LET r == fetch_properties_body(sel, tbl, ok)
         IN  IF Raised(r.out)
             THEN [out |-> r.out, sent |-> r.sent, stored |-> FALSE, cache |-> cache]
             ELSE [out |-> r.out, sent |-> r.sent, stored |-> TRUE,
                   cache |-> [cache EXCEPT ![sel] = [value |-> r.out, at |-> t]]]

\* the instant at which the frame a fetch_properties call returned was read
\* from the remote store: this call's, or the one that stored the entry
ReadAt(r, sel, t) == IF r.stored THEN t ELSE r.cache[sel].at

Earlier(a, b) == IF a <= b THEN a ELSE b

\* no remote read stands behind the outcome (an exception was raised)
NoRead == 0 - 1

\* load_property_data behind st.cache_data(ttl=CACHE_TTL["data"]). On a miss
\* the body fetches the default location, then all listings, each through
\* the memoized fetch_properties. fromStore: the listings handed back were
\* read from the remote store by this very call. fetched: the instant at
\* which the older of the two frames handed back was read from the remote
\* store; the stored entry remembers it next to the value.
load_property_data(lpd, cache, t, tbl, ok1, ok2) ==
    IF Fresh(lpd, t, TTL_data)
    THEN [out |-> lpd.value, sent |-> 0, fromStore |-> FALSE,
          fetched |-> lpd.fetched, cache |-> cache, lpd |-> lpd]
    ELSE LET r1 == fetch_properties(cache, "default_location", t, tbl, ok1)
             r2 == fetch_properties(r1.cache, "all", t, tbl, ok2)
         IN  IF Raised(r1.out)
             THEN [out |-> r1.out, sent |-> r1.sent, fromStore |-> FALSE,
                   fetched |-> NoRead, cache |-> r1.cache, lpd |-> lpd]
             ELSE IF Raised(r2.out)
             THEN [out |-> r2.out, sent |-> r1.sent + r2.sent,
                   fromStore |-> FALSE, fetched |-> NoRead,
                   cache |-> r2.cache, lpd |-> lpd]
             ELSE LET v == [tag |-> "data", df_default_location |-> r1.out,
                            df_all |-> r2.out]
                      f == Earlier(ReadAt(r1, "default_location", t),
                                   ReadAt(r2, "all", t))
                  IN  [out |-> v, sent |-> r1.sent + r2.sent,
                       fromStore |-> r2.stored, fetched |-> f,
                       cache |-> r2.cache,
                       lpd |-> [value |-> v, at |-> t, fetched |-> f]]


TypeError == [tag |-> "TypeError", message |-> "cannot unpack non-iterable NoneType object"]

\* The `if submitted:` block of pg/form.py: the outcome shown to the user,
\* the listings table afterwards and the requests sent.
property_form_submit(tbl, f, ok) ==
    LET c == extract_coordinates(f.google_maps_url)
        desk_flag == IF f.has_a_desk = "Yes" THEN 1 ELSE 0
    IN  IF c = ValueError
        THEN [out |-> ValueError, table |-> tbl, sent |-> 0]
        ELSE IF c = None     \* lat, lon = None
        THEN [out |-> TypeError, table |-> tbl, sent |-> 0]
        ELSE IF ~ok
        THEN [out |-> StorageError, table |-> tbl, sent |-> 1]
        ELSE [out |-> [tag |-> "success", lat |-> c.lat, lon |-> c.lon],
              table |-> insert_property(tbl, f.title, f.listing_url,
                            f.google_maps_url, c.lat, c.lon, f.price,
                            f.contract_length, desk_flag, f.date_added,
                            f.description),
              sent |-> 1]

NoCall == [op |-> "none", sel |-> "", form |-> Null,
           out |-> Null, sent |-> 0, fromStore |-> FALSE, first |-> FALSE,
           again |-> FALSE, at |-> 0, fetched |-> NoRead]

\* `ok` names the store's answer to a request; when the memoized result
\* answers and nothing is sent, only ok = TRUE is tried.
Answers(entry, t, ttl, ok) == Fresh(entry, t, ttl) => ok

\* A session presses "Add to map" with the form filled as f. The handler
\* keeps nothing per session and sends one request, so submissions of several
\* sessions interleave as whole steps, in any order.
Submit(f, ok) ==
    /\ Len(inserted) < MaxInserts
    /\ LET r == property_form_submit(table, f, ok)
       IN  /\ table' = r.table
           /\ call' = [NoCall EXCEPT !.op = "submit", !.form = f,
                                     !.out = r.out, !.sent = r.sent]
           /\ inserted' = IF r.out.tag = "success"
                          THEN Append(inserted, f) ELSE inserted
           /\ unread' = (unread \/ r.out.tag = "success")
    /\ UNCHANGED << now, fp_cache, lpd_cache, extractVars, mapVars >>

\* a call Database().fetch_properties(table=sel), from any session (the
\* memo is shared by all sessions of the server)
FetchProperties(sel, ok) ==
    /\ Answers(fp_cache[sel], now, TTL_processing, ok)
    /\ LET r == fetch_properties(fp_cache, sel, now, table, ok)
       IN  /\ fp_cache' = r.cache
           /\ call' = [NoCall EXCEPT !.op = "fetch", !.sel = sel,
                         !.out = r.out, !.sent = r.sent, !.fromStore = r.stored,
                         !.first = (sel = "all" /\ unread),
                         !.again = (/\ call.op = "fetch" /\ call.sel = sel
                                    /\ Raised(call.out) /\ call.sent = 0)]
           /\ unread' = (unread /\ ~(sel = "all" /\ ~Raised(r.out)))
    /\ UNCHANGED << table, now, lpd_cache, inserted, extractVars, mapVars >>

\* a call load_property_data(), from any session
LoadPropertyData(ok1, ok2) ==
    /\ Answers(lpd_cache, now, TTL_data, ok1 /\ ok2)
    /\ Answers(fp_cache["default_location"], now, TTL_processing, ok1)
    /\ Answers(fp_cache["all"], now, TTL_processing, ok2)
    /\ LET r == load_property_data(lpd_cache, fp_cache, now, table, ok1, ok2)
       IN  /\ fp_cache' = r.cache
           /\ lpd_cache' = r.lpd
           /\ call' = [NoCall EXCEPT !.op = "load", !.out = r.out, !.sent = r.sent,
                         !.fromStore = r.fromStore, !.first = unread,
                         !.at = now, !.fetched = r.fetched]
           /\ unread' = (unread /\ Raised(r.out))
    /\ UNCHANGED << table, now, inserted, extractVars, mapVars >>

\* time passes, up to the next instant at which something happens
Tick(t) ==
    /\ t > now
    /\ now' = t
    /\ UNCHANGED << table, fp_cache, lpd_cache, call, inserted, unread,
                    extractVars, mapVars >>

\* a listing that was in the table before the application started
SeedRow ==
    Row("S", "fb/0", UrlPlace, Normalize(17, 1), Normalize(9, 0), 9000, 3, 0,
        << "2", "0", "2", "5", "-", "0", "8", "-", "3", "0" >>, "", 1)

InitialTables == { << SeedRow >> }

ExtractIdle == url = << >> /\ npieces = 0 /\ extracted = Pending

StoreInit ==
    /\ now = 0
    /\ fp_cache = [k \in Selectors |-> NoEntry]
    /\ lpd_cache = NoEntry
    /\ call = NoCall
    /\ inserted = << >>
    /\ unread = FALSE

MapIdle ==
    /\ session_state = [s \in Sessions |-> Null]
    /\ page = [s \in Sessions |-> Null]

Init ==
    /\ table \in InitialTables
    /\ StoreInit
    /\ ExtractIdle
    /\ MapIdle

Next ==
    \/ \E f \in FormInputs, ok \in BOOLEAN : Submit(f, ok)
    \/ \E sel \in Selectors, ok \in BOOLEAN : FetchProperties(sel, ok)
    \/ \E ok1 \in BOOLEAN, ok2 \in BOOLEAN : LoadPropertyData(ok1, ok2)
    \/ \E t \in Instants : Tick(t)

Spec == Init /\ [][Next]_vars

ExtractInit ==
    /\ ExtractIdle
    /\ table = << >>
    /\ StoreInit
    /\ MapIdle

ExtractNext ==
    \/ \E p \in Pieces : AppendPiece(p)
    \/ ExtractCoordinates

SpecExtract == ExtractInit /\ [][ExtractNext]_vars


-----------------------------------------------------------------------------
(***************************************************************************)
(* Properties of the facade and the form.                                  *)
(***************************************************************************)

\* text is the ISO-8601 calendar date YYYY-MM-DD of d
IsIsoDateOf(text, d) ==
    /\ Len(text) = 10
    /\ text[5] = "-" /\ text[8] = "-"
    /\ \A x \in {1, 2, 3, 4, 6, 7, 9, 10} : text[x] \in Digits
    /\ DigitsToNat(SubSeq(text, 1, 4)) = d.year
    /\ DigitsToNat(SubSeq(text, 6, 7)) = d.month
    /\ DigitsToNat(SubSeq(text, 9, 10)) = d.day

\* row carries the fields submitted with f
RowMatches(row, f) ==
    /\ row.title = f.title
    /\ row.listing_url = f.listing_url
    /\ row.google_maps_url = f.google_maps_url
    /\ LET c == extract_coordinates(f.google_maps_url)
       IN  row.latitude = c.lat /\ row.longitude = c.lon
    /\ row.price = f.price
    /\ row.contract_length = f.contract_length
    /\ row.has_a_desk = (IF f.has_a_desk = "Yes" THEN 1 ELSE 0)
    /\ IsIsoDateOf(row.date_added, f.date_added)
    /\ row.description = f.description

Contains(df, f) == \E i \in 1..Len(df.rows) : RowMatches(df.rows[i], f)

\* the last operation was a read of all listings that returned
ReadAll ==
    \/ call.op = "fetch" /\ call.sel = "all" /\ call.out.tag = "df"
    \/ call.op = "load" /\ call.out.tag = "data"

Listings == IF call.op = "load" THEN call.out.df_all ELSE call.out

\* C6 as stated: the first read of all listings after a successful insert
\* returns a collection that contains every listing inserted so far (the
\* one just inserted among them), date_added as YYYY-MM-DD.
C6_NextReadHasInsert ==
    (ReadAll /\ call.first)
        => \A i \in 1..Len(inserted) : Contains(Listings, inserted[i])

\* C6 as amended: a read of all listings that the remote store answered (no
\* memoized result was used) contains every listing inserted so far,
\* date_added as YYYY-MM-DD.
C6_StoreReadHasInsert ==
    (ReadAll /\ call.fromStore)
        => \A i \in 1..Len(inserted) : Contains(Listings, inserted[i])

\* the first read after an insert, made when the memoized results of an
\* earlier moment have expired, answered by the store
C6_Witness ==
    /\ ReadAll /\ call.op = "load" /\ call.fromStore /\ call.first
    /\ inserted # << >>
    /\ lpd_cache # NoEntry /\ lpd_cache.at = now
    /\ now >= TTL_processing

\* C7: the listings table is its initial rows followed by exactly one row
\* per successful insert_property call, in order, each with the fields that
\* were submitted; nothing else was added, changed or removed.
C7_AppendOnly ==
    \E t0 \in InitialTables :
        /\ Len(table) = Len(t0) + Len(inserted)
        /\ SubSeq(table, 1, Len(t0)) = t0
        /\ \A i \in 1..Len(inserted) : RowMatches(table[Len(t0) + i], inserted[i])

\* two inserts of identical data left two equal rows
C7_Witness ==
    /\ Len(inserted) = 2
    /\ inserted[1] = inserted[2]
    /\ table[Len(table)] = table[Len(table) - 1]

\* C8: a fetch_properties call with a selector other than 'all' and
\* 'default_location' ended in the invalid-table error, sent nothing to the
\* remote store and left nothing memoized under that selector.
C8_InvalidTable ==
    (call.op = "fetch" /\ call.sel \notin {"all", "default_location"})
        => /\ call.out = InvalidTable
           /\ call.sent = 0
           /\ fp_cache[call.sel] = NoEntry

\* the same invalid selector tried twice in a row, failing both times
C8_Witness ==
    /\ call.op = "fetch" /\ call.sel = "bogus" /\ call.again
    /\ call.out = InvalidTable

\* C9: a submission whose map URL matches neither pattern ends without an
\* unhandled error: the listing is inserted without coordinates, or nothing
\* is inserted and the user is told.
C9_MissingCoordinatesNonFatal ==
    (/\ call.op = "submit"
     /\ PlaceFragments(call.form.google_maps_url) = {}
     /\ AtFragments(call.form.google_maps_url) = {})
        => call.out.tag \in {"success", "blocked", "StorageError"}

\* C11: the property data a call of load_property_data hands back was read
\* from the remote store no more than CACHE_TTL["data"] seconds before the
\* call.
C11_DataNoOlderThanTTL ==
    (call.op = "load" /\ ~Raised(call.out))
        => call.at - call.fetched <= TTL_data

\* a call of load_property_data past its own TTL whose body was answered by
\* the still valid entry of fetch_properties
C11_StaleThroughInnerMemo ==
    /\ call.op = "load" /\ ~Raised(call.out)
    /\ call.sent = 0
    /\ lpd_cache.at = call.at
    /\ call.at - call.fetched > TTL_data


-----------------------------------------------------------------------------
(***************************************************************************)
(* The map page (pg/map.py): one action per run of the script.  The        *)
(* functions under st.cache_data without ttl (process_property_data,       *)
(* create_base_map) are pure and hand out copies, so they are operators.   *)
(* Popup and tooltip HTML, sizes and the device detection only shape what  *)
(* a marker looks like and are left out.                                   *)
(***************************************************************************)

MaxRows == 2

NaN == "nan"

KeyError == [tag |-> "KeyError"]

flag_to_description(c) ==
    CASE c = 0 -> "Full" [] c = 1 -> "Free rooms" [] c = 2 -> "TBD"
      [] OTHER -> NaN      \* Series.map leaves NaN where the dict has no key

description_to_flag_swapped(label) ==
    CASE label = "Full" -> 1 [] label = "Free rooms" -> 0 [] label = "TBD" -> 2

description_to_flag(label) ==
    CASE label = "Full" -> 0 [] label = "Free rooms" -> 1 [] label = "TBD" -> 2

Descriptions == {"Full", "Free rooms", "TBD"}

status_flags(code) ==
    CASE code = 0 -> "red" [] code = 1 -> "green" [] code = 2 -> "orange"

\* process_property_data: mid_Sep_flag from number to label
process_property_data(rows) ==
    [i \in 1..Len(rows) |->
        [rows[i] EXCEPT !.mid_Sep_flag = flag_to_description(@)]]

SetMin(S) == CHOOSE x \in S : \A y \in S : x <= y
SetMax(S) == CHOOSE x \in S : \A y \in S : x >= y

PricesOf(df) == { df[i].price : i \in 1..Len(df) }
LabelsOf(df) == { df[i].mid_Sep_flag : i \in 1..Len(df) }

SliderStep == 1000

\* the values the price slider can return: a pair of stops between the
\* lowest and the highest price
SliderRanges(df) ==
    LET lo == SetMin(PricesOf(df))
        hi == SetMax(PricesOf(df))
        stops == { lo + k * SliderStep : k \in 0..((hi - lo) \div SliderStep) }
    IN  { << a, b >> \in stops \X stops : a <= b }

\* the index labels of a frame, in order
Index(df) == [i \in 1..Len(df) |-> i]

filtered_df_strict(df, price_filter, status_filter) ==
    LET Keep(i) == /\ df[i].price >= price_filter[1]
                   /\ df[i].price < price_filter[2]
                   /\ df[i].mid_Sep_flag \in status_filter
    IN  SelectSeq(Index(df), Keep)

\* price_mask & status_mask applied to df_processed: the index labels kept
filtered_df(df, price_filter, status_filter) ==
    LET Keep(i) == /\ df[i].price >= price_filter[1]
                   /\ df[i].price <= price_filter[2]
                   /\ df[i].mid_Sep_flag \in status_filter
    IN  SelectSeq(Index(df), Keep)

\* create_base_map: a map without markers (its centre is left out)
create_base_map(rows) == [markers |-> << >>]

\* one pass of the `for index, row in filtered_df.iterrows()` loop
Marker(df, i) ==
    [index |-> i,
     location |-> << df[i].latitude, df[i].longitude >>,
     color |-> status_flags(description_to_flag(df[i].mid_Sep_flag))]

NoCount == 0 - 1

\* The marker block (map.py 239-277) on a fresh base map m: the map, the
\* count kept in the session, and the KeyError of description_to_flag[...]
\* on a label it has no key for.
marker_block(m, df, filtered, last_filtered_count) ==
    IF last_filtered_count = NoCount \/ last_filtered_count # Len(filtered)
    THEN IF \E k \in 1..Len(filtered) : df[filtered[k]].mid_Sep_flag \notin Descriptions
         THEN [out |-> KeyError, m |-> m, last_filtered_count |-> last_filtered_count]
         ELSE [out |-> [tag |-> "ok"],
               m |-> [m EXCEPT !.markers =
                         @ \o [k \in 1..Len(filtered) |-> Marker(df, filtered[k])]],
               last_filtered_count |-> Len(filtered)]
    ELSE [out |-> [tag |-> "ok"], m |-> m, last_filtered_count |-> last_filtered_count]


\* what a run shows when it stops before the filters are applied
ErrorPage(err) ==
    [out |-> err, df |-> << >>, filtered |-> << >>, markers |-> << >>,
     shown |-> FALSE]

\* One run of pg/map.py in session s. The slider and the multiselect hand
\* back what the user set (their defaults on the first run of the session);
\* ok1, ok2: whether the store answers the two reads, should they be sent.
Render(s, ok1, ok2) ==
    LET r == load_property_data(lpd_cache, fp_cache, now, table, ok1, ok2)
    IN  /\ Answers(lpd_cache, now, TTL_data, ok1 /\ ok2)
        /\ Answers(fp_cache["default_location"], now, TTL_processing, ok1)
        /\ Answers(fp_cache["all"], now, TTL_processing, ok2)
        /\ fp_cache' = r.cache
        /\ lpd_cache' = r.lpd
        /\ IF Raised(r.out)
           THEN /\ page' = [page EXCEPT ![s] = ErrorPage(r.out)]
                /\ UNCHANGED session_state
           ELSE IF r.out.df_all.rows = << >>
           THEN \* a frame without rows has no columns: df["mid_Sep_flag"]
                /\ page' = [page EXCEPT ![s] = ErrorPage(KeyError)]
                /\ UNCHANGED session_state
           ELSE LET rows == r.out.df_all.rows
                    df == process_property_data(rows)
                    first == session_state[s] = Null
                    lo == SetMin(PricesOf(df))
                    hi == SetMax(PricesOf(df))
                    last == IF first THEN NoCount
                            ELSE session_state[s].last_filtered_count
                IN  \E price_filter \in SliderRanges(df),
                       status_filter \in SUBSET LabelsOf(df) :
                      /\ first => /\ price_filter = << lo, hi >>
                                  /\ status_filter = LabelsOf(df)
                      /\ LET filtered == filtered_df(df, price_filter, status_filter)
                             mb == marker_block(create_base_map(rows), df,
                                                filtered, last)
                         IN  /\ session_state' =
                                  [session_state EXCEPT ![s] =
                                     [price_filter |-> price_filter,
                                      status_filter |-> status_filter,
                                      last_filtered_count |-> mb.last_filtered_count]]
                             /\ page' =
                                  [page EXCEPT ![s] =
                                     [out |-> mb.out, df |-> df,
                                      filtered |-> filtered,
                                      markers |-> IF Raised(mb.out) THEN << >>
                                                  ELSE mb.m.markers,
                                      shown |-> ~Raised(mb.out)]]
        /\ UNCHANGED << table, now, call, inserted, unread, extractVars >>

MapPrices == {5000, 7000}

MapRow(price, flag) ==
    Row("M", "", UrlPlace, Normalize(17, 1), Normalize(9, 0), price, 6, 0,
        << "2", "0", "2", "5", "-", "0", "9", "-", "1", "6" >>, "", flag)

MapRows == { MapRow(p, c) : p \in MapPrices, c \in {0, 1, 2, NullFlag} }

MapTables == UNION { [1..k -> MapRows] : k \in 0..MaxRows }

MapInit ==
    /\ table \in MapTables
    /\ StoreInit
    /\ ExtractIdle
    /\ MapIdle

MapNext == \E s \in Sessions, ok1 \in BOOLEAN, ok2 \in BOOLEAN : Render(s, ok1, ok2)

SpecMap == MapInit /\ [][MapNext]_vars

-----------------------------------------------------------------------------
(***************************************************************************)
(* Properties of the map page.                                             *)
(***************************************************************************)

InSeq(x, seq) == \E k \in 1..Len(seq) : seq[k] = x

\* C5: in every run that applied the filters, a listing is in the filtered
\* result exactly when its price lies in the chosen range and its status is
\* among the selected ones; with no status selected the result is empty.
C5_Filter ==
    \A s \in Sessions :
        (page[s] # Null /\ page[s].df # << >>)
            => LET df == page[s].df
                   pf == session_state[s].price_filter
                   sf == session_state[s].status_filter
               IN  /\ \A i \in 1..Len(df) :
                         InSeq(i, page[s].filtered)
                            <=> (/\ pf[1] <= df[i].price
                                 /\ df[i].price <= pf[2]
                                 /\ df[i].mid_Sep_flag \in sf)
                   /\ sf = {} => page[s].filtered = << >>

\* a run whose price range ends on the price of a listing it keeps, and
\* which drops another listing
C5_Witness ==
    \E s \in Sessions :
        /\ page[s] # Null /\ page[s].df # << >>
        /\ \E k \in 1..Len(page[s].filtered) :
              page[s].df[page[s].filtered[k]].price = session_state[s].price_filter[2]
        /\ Len(page[s].filtered) < Len(page[s].df)

\* a run with no status selected and a price range that holds every listing
C5_WitnessNoStatus ==
    \E s \in Sessions :
        /\ page[s] # Null /\ page[s].df # << >>
        /\ session_state[s].status_filter = {}
        /\ \A i \in 1..Len(page[s].df) :
              /\ session_state[s].price_filter[1] <= page[s].df[i].price
              /\ page[s].df[i].price <= session_state[s].price_filter[2]
        /\ page[s].filtered = << >>

StatusCodes == {0, 1, 2}

ColourOf(c) == CASE c = 0 -> "red" [] c = 1 -> "green" [] c = 2 -> "orange"

C12_MarkersMatchFiltered ==
    \A s \in Sessions :
        (page[s] # Null /\ page[s].shown) =>
            \A i \in 1..Len(page[s].df) :
                Cardinality({ k \in 1..Len(page[s].markers) :
                                 page[s].markers[k].index = i })
                    = IF InSeq(i, page[s].filtered) THEN 1 ELSE 0

\* a run whose filtered result has as many rows as the session remembers:
\* the marker block is skipped and the fresh base map is displayed bare
C12_SameCountBareMap ==
    \E s \in Sessions :
        /\ page[s] # Null /\ page[s].shown
        /\ page[s].filtered # << >>
        /\ session_state[s].last_filtered_count = Len(page[s].filtered)
        /\ page[s].markers = << >>

=============================================================================
